---- MODULE Spec2Model ----
(***************************************************************************)
(* Model of generate_structure.py: one run of main() walks the directory   *)
(* tree, scans YAML files for include directives, lists the root           *)
(* directory, and writes project_structure.json.  Several runs follow one  *)
(* another on the same tree.                                               *)
(*                                                                         *)
(* A path is a sequence of names (strings); its string form joins them     *)
(* with "/".  A file's text is a sequence of whitespace-separated tokens.  *)
(***************************************************************************)
EXTENDS Integers, Sequences, FiniteSets, TLC

\* ---------------------------------------------------------------- bounds
\* largest number of nodes (files, empty directories) chosen for the tree
MaxNodes == 3
\* number of consecutive runs of main()
MaxRuns == 2

\* ------------------------------------------------------- string helpers
\* characters used by the model, in ascending code-point order
Alphabet == " !#-./:ABCDEILMNUY_abcdefghijklmnopqrstuvwxyz"
UpperCase == "ABCDEILMNUY"
LowerCase == "abcdeilmnuy"

CharAt(s, i) == SubSeq(s, i, i)

\* position of a character in code-point order (str comparison of Python)
Rank(c) == CHOOSE i \in 1..Len(Alphabet) : CharAt(Alphabet, i) = c

LowerChar(c) ==
  IF \E i \in 1..Len(UpperCase) : CharAt(UpperCase, i) = c
  THEN CharAt(LowerCase, CHOOSE i \in 1..Len(UpperCase) : CharAt(UpperCase, i) = c)
  ELSE c

RECURSIVE Lower(_)
Lower(s) == IF Len(s) = 0 THEN "" ELSE LowerChar(CharAt(s, 1)) \o Lower(SubSeq(s, 2, Len(s)))

\* key in s  (substring test)
Contains(s, key) ==
  \E i \in 1..(Len(s) - Len(key) + 1) : SubSeq(s, i, i + Len(key) - 1) = key

EndsWith(s, x) == Len(x) <= Len(s) /\ SubSeq(s, Len(s) - Len(x) + 1, Len(s)) = x

StartsWith(s, x) == Len(x) <= Len(s) /\ SubSeq(s, 1, Len(x)) = x

\* a < b for Python strings: first differing code point, a proper prefix is less
RECURSIVE StrLessFrom(_, _, _)
StrLessFrom(a, b, i) ==
  IF i > Len(b) THEN FALSE
  ELSE IF i > Len(a) THEN TRUE
  ELSE IF CharAt(a, i) = CharAt(b, i) THEN StrLessFrom(a, b, i + 1)
  ELSE Rank(CharAt(a, i)) < Rank(CharAt(b, i))

StrLess(a, b) == StrLessFrom(a, b, 1)

\* sorted(S) for a set S of strings
RECURSIVE SortedStrs(_)
SortedStrs(S) ==
  IF S = {} THEN <<>>
  ELSE LET m == CHOOSE x \in S : \A y \in S \ {x} : StrLess(x, y)
       IN <<m>> \o SortedStrs(S \ {m})

Range(seq) == {seq[i] : i \in 1..Len(seq)}

\* ------------------------------------------------------------ pathlib
RECURSIVE PathStr(_)
\* str(Path(...)): the names joined with "/"
PathStr(p) ==
  IF Len(p) = 0 THEN "."
  ELSE IF Len(p) = 1 THEN p[1]
  ELSE PathStr(SubSeq(p, 1, Len(p) - 1)) \o "/" \o p[Len(p)]

\* Path.name
Name(p) == p[Len(p)]

\* Path.parent
Parent(p) == SubSeq(p, 1, Len(p) - 1)

\* Path.suffix: from the last dot of the name, unless that dot is the first
\* or the last character
Suffix(name) ==
  LET dots == {i \in 1..Len(name) : CharAt(name, i) = "."}
  IN IF dots = {} THEN ""
     ELSE LET i == CHOOSE d \in dots : \A e \in dots : e <= d
          IN IF 1 < i /\ i < Len(name) THEN SubSeq(name, i, Len(name)) ELSE ""

\* ------------------------------------------------- constant tables
EXCLUDE_DIRS == {".git", ".github", "__pycache__", "venv", ".venv", ".idea"}
EXCLUDE_SUFFIXES == {".pyc", ".log", ".tmp", ".bak"}

\* the description table in its authored order; the texts are abbreviated
DESCR == <<
  <<"configuration.yaml", "main Home Assistant configuration">>,
  <<"customize.yaml", "customization">>,
  <<"scripts.yaml", "user scripts">>,
  <<"scenes.yaml", "scenes">>,
  <<"esphome", "ESPHome device configurations">>,
  <<"zigbee2mqtt", "Zigbee2MQTT settings">>,
  <<"includes", "included YAML parts">>,
  <<"blueprints", "automation blueprints">> >>

OUTPUT_NAME == "project_structure.json"

\* is_skip_dir comparing with one name instead of the whole set
is_skip_dir_first(d) == d = ".git"

is_skip_dir(d) == d \in EXCLUDE_DIRS

\* p is a path
is_skip_file(p) == \E x \in EXCLUDE_SUFFIXES : EndsWith(Name(p), x)

\* ------------------------------------------------- include extraction
\* the marker "!\s*include[^\s]*" ends in token tok: the tag is inside tok
TagIn(tok) == Contains(Lower(tok), "!include")

\* the capture group "([^\s#]+)" applied at the start of token tok
RECURSIVE Capture(_)
Capture(tok) ==
  IF Len(tok) = 0 \/ CharAt(tok, 1) = "#" THEN ""
  ELSE CharAt(tok, 1) \o Capture(SubSeq(tok, 2, Len(tok)))

\* index of the token holding the target of a directive that starts in
\* token i, or 0 when no directive starts there
TargetIndex(text, i) ==
  IF TagIn(text[i]) /\ i + 1 <= Len(text) /\ Capture(text[i + 1]) # ""
    THEN i + 1
  ELSE IF EndsWith(text[i], "!") /\ i + 2 <= Len(text)
          /\ StartsWith(Lower(text[i + 1]), "include")
          /\ Capture(text[i + 2]) # ""
    THEN i + 2
  ELSE 0

\* INCLUDE_RE.finditer(text): group(1) of the non-overlapping matches, in order
RECURSIVE FindIter(_, _)
FindIter(text, i) ==
  IF i > Len(text) THEN <<>>
  ELSE LET t == TargetIndex(text, i)
       IN IF t = 0 THEN FindIter(text, i + 1)
          ELSE <<Capture(text[t])>> \o FindIter(text, t + 1)

\* the test of line 38 that guards the read
LooksYaml(p) == EndsWith(Lower(Suffix(Name(p))), "yaml")

\* yaml_includes whose try does not cover the read: the failure is not seen
yaml_includes_nocatch(p, a) ==
  IF ~LooksYaml(p) THEN <<>>
  ELSE SortedStrs(Range(FindIter(a.text, 1)))

\* yaml_includes returning the matches as found, without sorted(set(...))
yaml_includes_asfound(p, a) ==
  IF ~LooksYaml(p) THEN <<>>
  ELSE IF ~a.readable THEN <<>>
  ELSE FindIter(a.text, 1)

\* yaml_includes(path) for a file with attributes a = [text, readable]
yaml_includes(p, a) ==
  IF ~LooksYaml(p) THEN <<>>
  ELSE IF ~a.readable THEN <<>>
  ELSE SortedStrs(Range(FindIter(a.text, 1)))

\* describe in which the last matching key wins
describe_last(s, nm) ==
  LET hits == {i \in 1..Len(DESCR) : Contains(s, DESCR[i][1])}
  IN IF hits # {} THEN DESCR[CHOOSE i \in hits : \A j \in hits : j <= i][2]
     ELSE IF Suffix(nm) \in {".yaml", ".yml"} THEN "YAML configuration"
     ELSE IF Suffix(nm) = ".json" THEN "JSON data"
     ELSE IF Suffix(nm) = ".py" THEN "Python script"
     ELSE ""

\* describe(p) on the string form s of p whose name is nm
describe(s, nm) ==
  LET hits == {i \in 1..Len(DESCR) : Contains(s, DESCR[i][1])}
  IN IF hits # {} THEN DESCR[CHOOSE i \in hits : \A j \in hits : i <= j][2]
     ELSE IF Suffix(nm) \in {".yaml", ".yml"} THEN "YAML configuration"
     ELSE IF Suffix(nm) = ".json" THEN "JSON data"
     ELSE IF Suffix(nm) = ".py" THEN "Python script"
     ELSE ""

\* make_relations(incmap)
make_relations(m) == [k \in DOMAIN m |-> SortedStrs(Range(m[k]))]

\* ------------------------------------------------- the directory tree
\* candidate files of the tree
FileCands == {
  <<"configuration.yaml">>, <<"a.yml">>, <<"debug.log">>, <<"notes.txt">>,
  <<"tool.py">>, <<"project_structure.json">>,
  <<".git", "config.yaml">>,
  <<"esphome", "scripts.yaml">>,
  <<"esphome", "venv", "c.yaml">> }

\* candidate empty directories of the tree
DirCands == { <<"blueprints">> }

TxtPlain == <<"sensor:", "#", "!include">>
TxtOne == <<"sensor:", "!include", "includes/sensors.yaml">>
TxtDup == <<"!include", "b.yaml", "!INCLUDE_dir_list", "a.yaml#x", "!", "include", "b.yaml">>

\* the candidate files whose text and readability vary; the others hold TxtOne
VariedCands == { <<"configuration.yaml">>, <<"esphome", "scripts.yaml">> }

\* candidate file states: the text and whether read_text() succeeds
Contents == {
  [text |-> TxtPlain, readable |-> TRUE],
  [text |-> TxtOne, readable |-> TRUE],
  [text |-> TxtDup, readable |-> TRUE],
  [text |-> TxtOne, readable |-> FALSE] }

\* the proper ancestors of the paths of S, the root excluded
Ancestors(S) == UNION {{SubSeq(p, 1, n) : n \in 1..(Len(p) - 1)} : p \in S}

VARIABLES
  dirs,          \* the directories of the tree (paths)
  fattr,         \* the files of the tree: path -> [text, readable]
  rootListable,  \* whether the root directory can be listed
  out,           \* project_structure.json: <<>> when absent, else <<contents>>
  clock,         \* the wall clock
  run,           \* number of the current run of main()
  pc,            \* position of main(): start, scan, write, done, aborted
  files,         \* main's files
  incmap,        \* main's incmap, as far as collect_includes has built it
  idx,           \* collect_includes: index of the next file to scan
  generated,     \* the timestamp taken for this run
  rootmap,       \* the result of build_root_map
  readLog,       \* paths whose text this run tried to read
  writes,        \* number of writes of the output file in this run
  outAtStart,    \* out when this run started
  docs           \* the documents written so far: <<[run, doc], ...>>

vars == <<dirs, fattr, rootListable, out, clock, run, pc, files, incmap, idx,
          generated, rootmap, readLog, writes, outAtStart, docs>>

EmptyMap == [k \in {} |-> <<>>]

\* contents of an output file that was there before the first run
OldDoc == [project_name |-> "earlier contents"]

\* os.walk(dp) with the pruning of line 58 and the filter of line 61:
\* the files kept below directory dp
RECURSIVE Walk(_)
Walk(dp) ==
  LET fn == {p \in DOMAIN fattr : Parent(p) = dp}
      dn == {d \in dirs : Parent(d) = dp /\ ~is_skip_dir(Name(d))}
  IN {p \in fn : ~is_skip_file(p)} \cup UNION {Walk(d) : d \in dn}

\* sorted(S, key=str) for a set S of paths
RECURSIVE SortedPaths(_)
SortedPaths(S) ==
  IF S = {} THEN <<>>
  ELSE LET m == CHOOSE x \in S : \A y \in S \ {x} : StrLess(PathStr(x), PathStr(y))
       IN <<m>> \o SortedPaths(S \ {m})

\* list_all(root); os.walk swallows the error of a directory it cannot list
list_all == IF rootListable THEN SortedPaths(Walk(<<>>)) ELSE <<>>

\* top_level(root): the direct children of the root that are kept
top_level == {p \in dirs \cup DOMAIN fattr : Len(p) = 1 /\ ~is_skip_dir(Name(p))}

\* Path.is_dir()
is_dir(p) == p \in dirs

TypeOf(p) == IF is_dir(p) THEN "directory" ELSE "file"

\* one value of the root map, one element of the files list
Tagged(base, desc) ==
  IF desc # "" THEN [k \in DOMAIN base \cup {"description"} |->
                       IF k = "description" THEN desc ELSE base[k]]
  ELSE base

\* build_root_map(entries)
build_root_map(entries) ==
  [n \in {Name(e) : e \in entries} |->
     LET e == CHOOSE x \in entries : Name(x) = n
     IN Tagged([type |-> TypeOf(e)], describe(PathStr(e), Name(e)))]

\* the "files" list of main
FileList(fs) ==
  [i \in 1..Len(fs) |->
     Tagged([path |-> PathStr(fs[i]), type |-> TypeOf(fs[i])],
            describe(PathStr(fs[i]), Name(fs[i])))]

\* collect_includes without the test "if incs"
collect_step_all(m, f) ==
  LET incs == yaml_includes(f, fattr[f])
  IN [k \in DOMAIN m \cup {PathStr(f)} |-> IF k = PathStr(f) THEN incs ELSE m[k]]

\* one iteration of the loop of collect_includes
collect_step(m, f) ==
  LET incs == yaml_includes(f, fattr[f])
  IN IF incs # <<>>
     THEN [k \in DOMAIN m \cup {PathStr(f)} |-> IF k = PathStr(f) THEN incs ELSE m[k]]
     ELSE m

\* the document main assembles
Data ==
  [project_name |-> "Home Assistant Configuration",
   repository |-> "",
   generated |-> generated,
   root |-> rootmap,
   files |-> FileList(files),
   yaml_includes |-> incmap,
   relations |-> make_relations(incmap),
   usage_rules |-> "usage rules"]

Init ==
  /\ \E S \in SUBSET (FileCands \cup DirCands) :
       /\ Cardinality(S) <= MaxNodes
       /\ fattr \in [S \cap FileCands -> Contents]
       /\ \A p \in DOMAIN fattr \ VariedCands : fattr[p] = [text |-> TxtOne, readable |-> TRUE]
       /\ dirs = Ancestors(S \cap FileCands) \cup (S \cap DirCands)
  /\ rootListable \in BOOLEAN
  /\ out = IF <<OUTPUT_NAME>> \in DOMAIN fattr THEN <<OldDoc>> ELSE <<>>
  /\ clock = 1
  /\ run = 1
  /\ pc = "start"
  /\ files = <<>>
  /\ incmap = EmptyMap
  /\ idx = 1
  /\ generated = 0
  /\ rootmap = EmptyMap
  /\ readLog = {}
  /\ writes = 0
  /\ outAtStart = out
  /\ docs = <<>>

\* main, line 93: files = list_all(root)
ListAll ==
  /\ pc = "start"
  /\ files' = list_all
  /\ idx' = 1
  /\ pc' = "scan"
  /\ UNCHANGED <<dirs, fattr, rootListable, out, clock, run, incmap, generated,
                 rootmap, readLog, writes, outAtStart, docs>>

\* main, line 94: one file of collect_includes(files)
ScanFile ==
  /\ pc = "scan"
  /\ idx <= Len(files)
  /\ incmap' = collect_step(incmap, files[idx])
  /\ readLog' = readLog \cup (IF LooksYaml(files[idx]) THEN {files[idx]} ELSE {})
  /\ idx' = idx + 1
  /\ UNCHANGED <<dirs, fattr, rootListable, out, clock, run, pc, files, generated,
                 rootmap, writes, outAtStart, docs>>

\* main, lines 98-99: the timestamp, then build_root_map(top_level(root))
TopLevel ==
  /\ pc = "scan"
  /\ idx > Len(files)
  /\ rootListable
  /\ generated' = clock
  /\ clock' = clock + 1
  /\ rootmap' = build_root_map(top_level)
  /\ pc' = "write"
  /\ UNCHANGED <<dirs, fattr, rootListable, out, run, files, incmap, idx, readLog,
                 writes, outAtStart, docs>>

\* the root listing fails and the document is written all the same
TopLevelFails_writes ==
  /\ pc = "scan"
  /\ idx > Len(files)
  /\ ~rootListable
  /\ generated' = clock
  /\ clock' = clock + 1
  /\ out' = <<Data>>
  /\ pc' = "aborted"
  /\ UNCHANGED <<dirs, fattr, rootListable, run, files, incmap, idx, rootmap,
                 readLog, writes, outAtStart, docs>>

\* main, line 99: Path.iterdir() raises and nothing catches it
TopLevelFails ==
  /\ pc = "scan"
  /\ idx > Len(files)
  /\ ~rootListable
  /\ generated' = clock
  /\ clock' = clock + 1
  /\ pc' = "aborted"
  /\ UNCHANGED <<dirs, fattr, rootListable, out, run, files, incmap, idx, rootmap,
                 readLog, writes, outAtStart, docs>>

\* main, lines 100-119: the rest of the document, then write_text
Write ==
  /\ pc = "write"
  /\ out' = <<Data>>
  /\ docs' = Append(docs, [run |-> run, doc |-> Data])
  /\ writes' = writes + 1
  /\ fattr' = [p \in DOMAIN fattr \cup {<<OUTPUT_NAME>>} |->
                 IF p = <<OUTPUT_NAME>>
                 THEN [text |-> <<>>,
                       readable |-> IF p \in DOMAIN fattr THEN fattr[p].readable ELSE TRUE]
                 ELSE fattr[p]]
  /\ pc' = "done"
  /\ UNCHANGED <<dirs, rootListable, clock, run, files, incmap, idx, generated,
                 rootmap, readLog, outAtStart>>

\* the script is started again; the permissions of the root may have changed
NextRun ==
  /\ pc \in {"done", "aborted"}
  /\ run < MaxRuns
  /\ run' = run + 1
  /\ rootListable' \in BOOLEAN
  /\ pc' = "start"
  /\ files' = <<>>
  /\ incmap' = EmptyMap
  /\ idx' = 1
  /\ generated' = 0
  /\ rootmap' = EmptyMap
  /\ readLog' = {}
  /\ writes' = 0
  /\ outAtStart' = out
  /\ UNCHANGED <<dirs, fattr, out, clock, docs>>

Next ==
  \/ ListAll
  \/ ScanFile
  \/ TopLevel
  \/ TopLevelFails
  \/ Write
  \/ NextRun

Spec == Init /\ [][Next]_vars

TypeOK ==
  /\ pc \in {"start", "scan", "write", "done", "aborted"}
  /\ run \in 1..MaxRuns
  /\ writes \in 0..1

\* ------------------------------------------------------------ claims
DocPaths(d) == {d.files[i].path : i \in 1..Len(d.files)}

\* the files that lie below a directory with an excluded name, at any depth
UnderExcluded == {p \in DOMAIN fattr : \E n \in 1..(Len(p) - 1) : p[n] \in EXCLUDE_DIRS}

\* the targets the directives of a text name, as a set
TargetsOf(text) == Range(FindIter(text, 1))

StrictlyAscending(seq) == \A i \in 1..(Len(seq) - 1) : StrLess(seq[i], seq[i + 1])

\* C1: no file below an excluded directory, at any depth, is walked, scanned
\* or has an entry in files, in root, in yaml_includes or in relations.
C1_ExcludedDirs ==
  /\ \A i \in 1..Len(files) : files[i] \notin UnderExcluded
  /\ pc = "done" =>
       \A p \in UnderExcluded :
         /\ PathStr(p) \notin DocPaths(out[1])
         /\ PathStr(p) \notin DOMAIN out[1].root
         /\ PathStr(p) \notin DOMAIN out[1].yaml_includes
         /\ PathStr(p) \notin DOMAIN out[1].relations

\* a run finished on a tree that has a readable YAML file with directives
\* below an excluded directory two levels down, and listed other files
C1_Witness ==
  /\ pc = "done"
  /\ Len(files) > 0
  /\ \E p \in UnderExcluded :
       Len(p) = 3 /\ fattr[p].readable /\ TargetsOf(fattr[p].text) # {}

\* C2: no file whose name ends with an excluded suffix has an entry in files,
\* in root or in yaml_includes, direct children of the root included.
C2_ExcludedSuffixes ==
  pc = "done" =>
    \A p \in DOMAIN fattr :
      (\E x \in EXCLUDE_SUFFIXES : EndsWith(Name(p), x)) =>
        /\ PathStr(p) \notin DocPaths(out[1])
        /\ PathStr(p) \notin DOMAIN out[1].root
        /\ PathStr(p) \notin DOMAIN out[1].yaml_includes

SameButGenerated(a, b) ==
  /\ a.project_name = b.project_name
  /\ a.repository = b.repository
  /\ a.root = b.root
  /\ a.files = b.files
  /\ a.yaml_includes = b.yaml_includes
  /\ a.relations = b.relations
  /\ a.usage_rules = b.usage_rules

\* C3: the documents of two consecutive runs on the same tree are equal in
\* every field but generated.
C3_TwoRuns ==
  \A i \in 1..(Len(docs) - 1) :
    docs[i + 1].run = docs[i].run + 1 => SameButGenerated(docs[i].doc, docs[i + 1].doc)

\* the files and directories the Tree Walker contract keeps
Kept ==
  {p \in dirs \cup DOMAIN fattr :
     /\ \A n \in 1..(Len(p) - 1) : p[n] \notin EXCLUDE_DIRS
     /\ p \in dirs => Name(p) \notin EXCLUDE_DIRS
     /\ p \in DOMAIN fattr => ~\E x \in EXCLUDE_SUFFIXES : EndsWith(Name(p), x)}

\* C4: files lists, ascending and without repeats, every kept file and every
\* kept directory, each with the type of its node.
C4_AllNodes ==
  pc = "write" =>
    /\ StrictlyAscending([i \in 1..Len(files) |-> Data.files[i].path])
    /\ DocPaths(Data) = {PathStr(p) : p \in Kept}
    /\ \A p \in Kept : \E i \in 1..Len(files) :
         /\ Data.files[i].path = PathStr(p)
         /\ Data.files[i].type = (IF p \in dirs THEN "directory" ELSE "file")

\* the two extensions the Descriptor treats as YAML
IsYamlExt(p) == Suffix(Name(p)) \in {".yaml", ".yml"}

\* the result collect_includes recorded for file f
Recorded(f) == IF PathStr(f) \in DOMAIN incmap THEN incmap[PathStr(f)] ELSE <<>>

\* C5: a scanned file is read if and only if its extension is .yaml or .yml;
\* any other file yields nothing, a .yaml or .yml file yields its targets.
C5_ReadIffYaml ==
  pc \in {"scan", "write"} =>
    \A i \in 1..(idx - 1) :
      LET f == files[i]
      IN /\ f \in readLog <=> IsYamlExt(f)
         /\ ~IsYamlExt(f) => Recorded(f) = <<>>
         /\ IsYamlExt(f) /\ fattr[f].readable =>
              Range(Recorded(f)) = TargetsOf(fattr[f].text)

\* the files whose read failed in this run
FailedReads == {f \in readLog : ~fattr[f].readable}

\* what yaml_includes gives for g when its read does not fail
WithoutFailure(g) ==
  IF LooksYaml(g) /\ fattr[g].readable THEN SortedStrs(TargetsOf(fattr[g].text)) ELSE <<>>

\* C6: a failed read aborts nothing: the only abort is the root listing; the
\* run writes the output, the file is in files, it is no key of
\* yaml_includes or relations, and every other file's includes are recorded
\* as without the failure.
C6_ReadFailure ==
  /\ pc = "aborted" => ~rootListable
  /\ pc = "done" =>
       \A f \in FailedReads :
         /\ writes = 1 /\ out = <<Data>>
         /\ PathStr(f) \in DocPaths(out[1])
         /\ PathStr(f) \notin DOMAIN out[1].yaml_includes
         /\ PathStr(f) \notin DOMAIN out[1].relations
         /\ \A g \in Range(files) \ {f} :
              /\ PathStr(g) \in DOMAIN out[1].yaml_includes <=> WithoutFailure(g) # <<>>
              /\ PathStr(g) \in DOMAIN out[1].yaml_includes =>
                   out[1].yaml_includes[PathStr(g)] = WithoutFailure(g)

\* a finished run in which one read failed and another file has includes
C6_Witness ==
  /\ pc = "done"
  /\ \E f \in FailedReads : \E g \in Range(files) \ {f} :
       PathStr(g) \in DOMAIN out[1].yaml_includes

ValuesOK(m) ==
  \A k \in DOMAIN m : m[k] # <<>> /\ StrictlyAscending(m[k])

\* C7: k is a key of yaml_includes iff k is the path of an entry of files
\* whose text contains a directive; values are non-empty, strictly ascending.
C7_KeysByText ==
  pc = "write" =>
    /\ DOMAIN Data.yaml_includes \subseteq DocPaths(Data)
    /\ \A f \in Range(files) :
         PathStr(f) \in DOMAIN Data.yaml_includes <=> TargetsOf(fattr[f].text) # {}
    /\ ValuesOK(Data.yaml_includes)

\* C7 as amended: k is a key of yaml_includes iff k is the path of an entry
\* of files for which yaml_includes returned a non-empty list (the file
\* passes the extension test of yaml_includes, its read succeeded and its text
\* contains a directive); the value is the file's targets, non-empty, strictly
\* ascending, each target once.
C7_KeysByExtractor ==
  pc = "write" =>
    /\ DOMAIN Data.yaml_includes \subseteq DocPaths(Data)
    /\ \A f \in Range(files) :
         /\ PathStr(f) \in DOMAIN Data.yaml_includes <=>
              (LooksYaml(f) /\ fattr[f].readable /\ TargetsOf(fattr[f].text) # {})
         /\ PathStr(f) \in DOMAIN Data.yaml_includes =>
              Range(Data.yaml_includes[PathStr(f)]) = TargetsOf(fattr[f].text)
    /\ ValuesOK(Data.yaml_includes)

\* a document with a key whose file repeats a target, and a YAML file that
\* is read, has no directive and is no key
C7_Witness ==
  /\ pc = "write"
  /\ \E f \in Range(files) :
       /\ PathStr(f) \in DOMAIN incmap
       /\ Len(FindIter(fattr[f].text, 1)) > Len(incmap[PathStr(f)])
  /\ \E f \in readLog : fattr[f].readable /\ PathStr(f) \notin DOMAIN incmap

\* C8: relations and yaml_includes have the same keys; relations[k] equals
\* yaml_includes[k] as a set and as a list; make_relations is idempotent.
C8_Relations ==
  pc = "done" =>
    LET d == out[1]
    IN /\ DOMAIN d.relations = DOMAIN d.yaml_includes
       /\ \A k \in DOMAIN d.yaml_includes :
            /\ Range(d.relations[k]) = Range(d.yaml_includes[k])
            /\ d.relations[k] = d.yaml_includes[k]
       /\ make_relations(d.yaml_includes) = d.yaml_includes
       /\ make_relations(make_relations(d.yaml_includes)) = make_relations(d.yaml_includes)

\* a written document with a key that lists two targets
C8_Witness ==
  /\ pc = "done"
  /\ \E k \in DOMAIN out[1].yaml_includes : Len(out[1].yaml_includes[k]) >= 2
  /\ \E k \in DOMAIN out[1].relations : Len(out[1].relations[k]) >= 2

\* the description entry e must carry for the path string s with name nm
DescOK(e, s, nm) ==
  LET keysIn == {i \in 1..Len(DESCR) : Contains(s, DESCR[i][1])}
  IN /\ "description" \in DOMAIN e => e.description # ""
     /\ IF keysIn # {}
        THEN /\ "description" \in DOMAIN e
             /\ \E i \in keysIn : (\A j \in keysIn : i <= j) /\ e.description = DESCR[i][2]
        ELSE IF Suffix(nm) = ".yaml" \/ Suffix(nm) = ".yml"
        THEN "description" \in DOMAIN e /\ e.description = "YAML configuration"
        ELSE IF Suffix(nm) = ".json"
        THEN "description" \in DOMAIN e /\ e.description = "JSON data"
        ELSE IF Suffix(nm) = ".py"
        THEN "description" \in DOMAIN e /\ e.description = "Python script"
        ELSE "description" \notin DOMAIN e

\* C9: every entry of files and of root is described by the first table key
\* its path string contains, else by its extension, else has no description.
C9_Describe ==
  pc = "write" =>
    /\ \A i \in 1..Len(files) :
         DescOK(Data.files[i], Data.files[i].path, Name(files[i]))
    /\ \A n \in DOMAIN Data.root : DescOK(Data.root[n], n, n)

\* a document with an entry whose path holds two table keys, an entry
\* described by its extension and an entry with no description
C9_Witness ==
  /\ pc = "write"
  /\ \E i \in 1..Len(files) :
       Cardinality({k \in 1..Len(DESCR) : Contains(Data.files[i].path, DESCR[k][1])}) >= 2
  /\ \E n \in DOMAIN Data.root : "description" \notin DOMAIN Data.root[n]
  /\ \E n \in DOMAIN Data.root :
       "description" \in DOMAIN Data.root[n] /\ Data.root[n].type = "directory"

\* C10: a run writes the output at most once, only after the walk, every scan
\* and the root listing; a completed run wrote once; an aborted run never
\* wrote, and the contents an earlier run left are unchanged.
C10_WriteOnce ==
  /\ writes <= 1
  /\ writes = 1 <=> pc = "done"
  /\ writes >= 1 => pc # "start" /\ idx > Len(files) /\ generated # 0
  /\ pc # "done" => out = outAtStart
  /\ pc = "done" => out = <<Data>>
  /\ pc = "aborted" => writes = 0 /\ out = outAtStart

\* a run aborted after an earlier run had written the output
C10_Witness ==
  /\ pc = "aborted"
  /\ run > 1
  /\ Len(docs) >= 1
  /\ out = <<docs[Len(docs)].doc>>

====
